---------------------------- MODULE Spec2Model ----------------------------
(***************************************************************************)
(* Record Filtering & Aggregation Engine of the voice-agent dashboard.     *)
(*                                                                         *)
(* Five React views (Dashboard, Conversations, Meetings, Analytics,        *)
(* SemanticAnalysisTable) each own component-local state.  One view is     *)
(* mounted at a time (Sidebar.activeView).  Every action below is one      *)
(* discrete reaction of the single-threaded event loop: a user input       *)
(* event, a timer expiry or the completion of a remote query, together     *)
(* with the React effects that the state change triggers.                  *)
(*                                                                         *)
(* Text is modelled as a sequence of one-character strings so that         *)
(* parsing and string building are computed, not assumed.                  *)
(***************************************************************************)
EXTENDS Integers, Sequences, FiniteSets, TLC

(***************************************************************************)
(* Bounds of the model                                                     *)
(***************************************************************************)
\* number of user input events in one behaviour
MaxEvents == 2
\* row identifiers the store can return to a table view
MaxRows == 2
\* granularity of the passage of time, in milliseconds
TickMs == 250
\* number of indicator collections handed to the Frequency Aggregator
MaxItems == 3
\* number of calls in a result set of the dashboard's aggregation
MaxCalls == 3

(***************************************************************************)
(* Program constants                                                       *)
(***************************************************************************)
\* setTimeout(..., 500)
DebounceMs == 500
\* .slice(0, 5) of countOccurrences
TopK == 5
\* calls.slice(0, 5) of the dashboard's recent calls
RecentLimit == 5

\* JavaScript null, for a nullable string
None == "null"
\* a nullable number: the empty set is null, {n} is the number n
Null == {}
Some(n) == {n}
\* a parsed number: JavaScript NaN, or the number n
NaN == [nan |-> TRUE, val |-> 0]
Num(n) == [nan |-> FALSE, val |-> n]

Min(a, b) == IF a <= b THEN a ELSE b

Views == {"Dashboard", "Conversations", "Meetings", "Analytics", "SemanticAnalysisTable"}
\* the views with a debounced text field
DebouncedViews == {"Meetings", "Conversations", "SemanticAnalysisTable"}
\* the views with a symbolic date-range selector
RangeViews == {"Dashboard", "Analytics"}

\* name of the debounced text field of a view's filters
TextField(v) ==
  CASE v = "Meetings" -> "search"
    [] v = "Conversations" -> "recipient"
    [] v = "SemanticAnalysisTable" -> "callId"

(***************************************************************************)
(* Inputs                                                                  *)
(***************************************************************************)
\* values typed into a text filter: "", "7", "a", "7a", "a,b"
Texts == {<< >>, <<"7">>, <<"a">>, <<"7", "a">>, <<"a", ",", "b">>}
\* values of an <input type="date">
Dates == {"", "2024-05-01"}
\* options of the sentiment <select>
SentimentOptions == {"", "positive"}
\* options of the alert status <select>
AlertOptions == {"", "warning"}
\* range tokens of the dashboard and of analytics
RangeTokens(v) == IF v = "Dashboard" THEN {"today", "7d", "30d"} ELSE {"all", "7d", "30d", "90d"}


(***************************************************************************)
(* parseInt(text, 10)                                                      *)
(***************************************************************************)
IsDigit(c) == c \in {"0", "1", "2", "3", "4", "5", "6", "7", "8", "9"}

DigitVal(c) ==
  CASE c = "0" -> 0 [] c = "1" -> 1 [] c = "2" -> 2 [] c = "3" -> 3 [] c = "4" -> 4
    [] c = "5" -> 5 [] c = "6" -> 6 [] c = "7" -> 7 [] c = "8" -> 8 [] c = "9" -> 9

RECURSIVE StripLeadingSpace(_)
StripLeadingSpace(s) ==
  IF s # << >> /\ Head(s) = " " THEN StripLeadingSpace(Tail(s)) ELSE s

\* the longest prefix of s made of decimal digits
RECURSIVE DigitPrefix(_)
DigitPrefix(s) ==
  IF s # << >> /\ IsDigit(Head(s)) THEN <<Head(s)>> \o DigitPrefix(Tail(s)) ELSE << >>

RECURSIVE DigitsValue(_, _)
DigitsValue(s, acc) ==
  IF s = << >> THEN acc ELSE DigitsValue(Tail(s), 10 * acc + DigitVal(Head(s)))

\* JavaScript parseInt(text, 10): leading white space is skipped, one sign is
\* read, then the longest run of digits; NaN when that run is empty.  What
\* follows the digits is ignored.
ParseInt(text) ==
  LET t == StripLeadingSpace(text)
      neg == t # << >> /\ Head(t) = "-"
      u == IF t # << >> /\ Head(t) \in {"-", "+"} THEN Tail(t) ELSE t
      d == DigitPrefix(u)
  IN IF d = << >> THEN NaN
     ELSE IF neg THEN Num(0 - DigitsValue(d, 0)) ELSE Num(DigitsValue(d, 0))

(***************************************************************************)
(* Text: toLowerCase and includes                                          *)
(***************************************************************************)
UpperCase == <<"A", "B", "C", "D", "E", "F", "G", "H", "I", "J", "K", "L", "M",
               "N", "O", "P", "Q", "R", "S", "T", "U", "V", "W", "X", "Y", "Z">>
LowerCase == <<"a", "b", "c", "d", "e", "f", "g", "h", "i", "j", "k", "l", "m",
               "n", "o", "p", "q", "r", "s", "t", "u", "v", "w", "x", "y", "z">>

LowerOf(c) ==
  IF \E i \in 1..26 : UpperCase[i] = c
    THEN LowerCase[CHOOSE i \in 1..26 : UpperCase[i] = c]
    ELSE c

\* String.prototype.toLowerCase
ToLowerCase(text) == [i \in 1..Len(text) |-> LowerOf(text[i])]

\* kw is a prefix of text
StartsWith(text, kw) ==
  Len(kw) <= Len(text) /\ SubSeq(text, 1, Len(kw)) = kw

\* String.prototype.includes
RECURSIVE Includes(_, _)
Includes(text, kw) ==
  \/ StartsWith(text, kw)
  \/ text # << >> /\ Includes(Tail(text), kw)

(***************************************************************************)
(* JavaScript Date in a fixed time zone.  An instant is held as its local  *)
(* calendar date [y, m, d] and the milliseconds ms since local midnight;   *)
(* tz is the offset of local time from UTC in minutes (daylight saving     *)
(* changes are not modelled).                                              *)
(***************************************************************************)
DayMs == 86400000
MinuteMs == 60000
\* setHours(23, 59, 59, 999)
EndOfDayMs == 86399999

IsLeapYear(y) == (y % 4 = 0 /\ y % 100 # 0) \/ y % 400 = 0

DaysInMonth(y, m) ==
  CASE m \in {1, 3, 5, 7, 8, 10, 12} -> 31
    [] m \in {4, 6, 9, 11} -> 30
    [] m = 2 -> IF IsLeapYear(y) THEN 29 ELSE 28

\* Date.prototype.setDate(n) on a date of month m of year y: a day number below
\* 1 or past the end of the month rolls into the months before or after
RECURSIVE SetDate(_, _)
SetDate(date, n) ==
  IF n < 1
    THEN LET py == IF date.m = 1 THEN date.y - 1 ELSE date.y
             pm == IF date.m = 1 THEN 12 ELSE date.m - 1
         IN SetDate([y |-> py, m |-> pm, d |-> 1], n + DaysInMonth(py, pm))
  ELSE IF n > DaysInMonth(date.y, date.m)
    THEN LET ny == IF date.m = 12 THEN date.y + 1 ELSE date.y
             nm == IF date.m = 12 THEN 1 ELSE date.m + 1
         IN SetDate([y |-> ny, m |-> nm, d |-> 1], n - DaysInMonth(date.y, date.m))
  ELSE [date EXCEPT !.d = n]

\* Date.prototype.setHours(h, min, s, ms), the time of day given in milliseconds
SetHours(t, ms) == [t EXCEPT !.ms = ms]

\* Date.prototype.toISOString(): the instant in UTC, as the date and the time of
\* day the text "YYYY-MM-DDTHH:mm:ss.sssZ" spells
ToISOString(t, tz) ==
  LET u == t.ms - tz * MinuteMs
  IN IF u < 0 THEN [date |-> SetDate(t.date, t.date.d - 1), ms |-> u + DayMs]
     ELSE IF u >= DayMs THEN [date |-> SetDate(t.date, t.date.d + 1), ms |-> u - DayMs]
     ELSE [date |-> t.date, ms |-> u]

\* iso.split('T')[0]: the date part of the text
DatePart(iso) == iso.date

\* getDatesFromRange shifted back by N days instead of N - 1
GetDatesFromRangeBackNDays(range, t) ==
  LET start == SetHours(t, 0)
  IN CASE range = "today" -> [startDate |-> start, endDate |-> SetHours(t, EndOfDayMs)]
       [] range = "7d" ->
            [startDate |-> [start EXCEPT !.date = SetDate(start.date, start.date.d - 7)],
             endDate |-> t]
       [] range = "30d" ->
            [startDate |-> [start EXCEPT !.date = SetDate(start.date, start.date.d - 30)],
             endDate |-> t]

\* Dashboard.getDatesFromRange evaluated when new Date() is t
GetDatesFromRange(range, t) ==
  LET start == SetHours(t, 0)
  IN CASE range = "today" -> [startDate |-> start, endDate |-> SetHours(t, EndOfDayMs)]
       [] range = "7d" ->
            [startDate |-> [start EXCEPT !.date = SetDate(start.date, start.date.d - 6)],
             endDate |-> t]
       [] range = "30d" ->
            [startDate |-> [start EXCEPT !.date = SetDate(start.date, start.date.d - 29)],
             endDate |-> t]

\* the characters of a range token of analytics
RangeText(range) ==
  CASE range = "7d" -> <<"7", "d">>
    [] range = "30d" -> <<"3", "0", "d">>
    [] range = "90d" -> <<"9", "0", "d">>

\* text.replace(c, ''): the first occurrence of c is removed
RECURSIVE RemoveFirst(_, _)
RemoveFirst(text, c) ==
  IF text = << >> THEN << >>
  ELSE IF Head(text) = c THEN Tail(text)
  ELSE <<Head(text)>> \o RemoveFirst(Tail(text), c)

\* Analytics.fetchAnalytics: startDate = new Date(); startDate.setDate(getDate() - days)
AnalyticsStartDate(range, t) ==
  LET days == ParseInt(RemoveFirst(RangeText(range), "d")).val
  IN [t EXCEPT !.date = SetDate(t.date, t.date.d - days)]

(***************************************************************************)
(* Predicate Builder: the query each view's fetch effect composes          *)
(***************************************************************************)
Pred(op, col, val) == [op |-> op, col |-> col, val |-> val]

\* `name.ilike.%${s}%,recipient_number.ilike.%${s}%`
OrFilter(s) ==
  <<"name.ilike.%">> \o s \o <<"%", ",", "recipient_number.ilike.%">> \o s \o <<"%">>

\* The conditions the store reads in the text handed to .or(): the text is cut
\* at every comma, each piece is one condition of the disjunction.
RECURSIVE ReadOrFilter(_, _)
ReadOrFilter(text, piece) ==
  IF text = << >> THEN <<piece>>
  ELSE IF Head(text) = "," THEN <<piece>> \o ReadOrFilter(Tail(text), << >>)
  ELSE ReadOrFilter(Tail(text), Append(piece, Head(text)))

\* Meetings.fetchMeetings: structural predicate, ordering, optional predicates
\* the Meetings query with the ordering left out of a text search
MeetingsQueryUnorderedSearch(f, d) ==
  [table |-> "call_history",
   order |-> IF d # << >> THEN << >> ELSE <<"tour_date", "asc">>,
   preds |-> <<Pred("not.is", "tour_date", None)>>
             \o (IF d # << >> THEN <<Pred("or", "", OrFilter(d))>> ELSE << >>)
             \o (IF f.startDate # "" THEN <<Pred("gte", "tour_date", f.startDate)>> ELSE << >>)
             \o (IF f.endDate # "" THEN <<Pred("lte", "tour_date", f.endDate)>> ELSE << >>)]

MeetingsQuery(f, d) ==
  [table |-> "call_history",
   order |-> <<"tour_date", "asc">>,
   preds |-> <<Pred("not.is", "tour_date", None)>>
             \o (IF d # << >> THEN <<Pred("or", "", OrFilter(d))>> ELSE << >>)
             \o (IF f.startDate # "" THEN <<Pred("gte", "tour_date", f.startDate)>> ELSE << >>)
             \o (IF f.endDate # "" THEN <<Pred("lte", "tour_date", f.endDate)>> ELSE << >>)]

\* fetchConversations with the date predicates added whatever the date field holds
ConversationsQueryAlwaysDated(f, d) ==
  [table |-> "call_history",
   order |-> <<"created_at", "desc">>,
   preds |-> (IF d # << >> THEN <<Pred("ilike", "recipient_number", <<"%">> \o d \o <<"%">>)>> ELSE << >>)
             \o <<Pred("gte", "created_at", <<f.date, "T00:00:00.000Z">>),
                  Pred("lt", "created_at", <<f.date, "+1d", "T00:00:00.000Z">>)>>]

\* Conversations.fetchConversations
ConversationsQuery(f, d) ==
  [table |-> "call_history",
   order |-> <<"created_at", "desc">>,
   preds |-> (IF d # << >> THEN <<Pred("ilike", "recipient_number", <<"%">> \o d \o <<"%">>)>> ELSE << >>)
             \o (IF f.date # ""
                   THEN <<Pred("gte", "created_at", <<f.date, "T00:00:00.000Z">>),
                          Pred("lt", "created_at", <<f.date, "+1d", "T00:00:00.000Z">>)>>
                   ELSE << >>)]

\* if (debouncedCallId) query = query.eq('call_id', parseInt(debouncedCallId, 10))
CallIdPred(d) ==
  IF d # << >> THEN <<Pred("eq", "call_id", ParseInt(d))>> ELSE << >>

\* SemanticAnalysisTable.fetchAnalysisData
AnalysisQuery(f, d) ==
  [table |-> "semantic_analysis",
   order |-> <<"created_at", "desc">>,
   preds |-> CallIdPred(d)
             \o (IF f.sentiment # "" THEN <<Pred("eq", "sentiment", f.sentiment)>> ELSE << >>)
             \o (IF f.alertStatus # "" THEN <<Pred("eq", "alert_status", f.alertStatus)>> ELSE << >>)
             \o (IF f.startDate # "" THEN <<Pred("gte", "created_at", <<f.startDate, "T00:00:00.000Z">>)>> ELSE << >>)
             \o (IF f.endDate # "" THEN <<Pred("lte", "created_at", <<f.endDate, "T23:59:59.999Z">>)>> ELSE << >>)]

\* Analytics.fetchAnalytics at the instant t in the time zone tz
AnalyticsQuery(range, t, tz) ==
  [table |-> "semantic_analysis",
   order |-> << >>,
   preds |-> IF range # "all"
               THEN <<Pred("gte", "created_at", ToISOString(AnalyticsStartDate(range, t), tz))>>
               ELSE << >>]

\* Dashboard.fetchDashboardData: calls of the window with their analysis
DashboardQuery(range, t, tz) ==
  [table |-> "call_history",
   order |-> <<"created_at", "desc">>,
   preds |-> <<Pred("gte", "created_at", ToISOString(GetDatesFromRange(range, t).startDate, tz)),
               Pred("lte", "created_at", ToISOString(GetDatesFromRange(range, t).endDate, tz))>>]

\* Dashboard.fetchMeetings: exact count of the tours of the window
MeetingsCountQuery(range, t, tz) ==
  [table |-> "call_history",
   order |-> << >>,
   preds |-> <<Pred("gte", "tour_date",
                    DatePart(ToISOString(GetDatesFromRange(range, t).startDate, tz))),
               Pred("lte", "tour_date",
                    DatePart(ToISOString(GetDatesFromRange(range, t).endDate, tz)))>>]

(***************************************************************************)
(* State                                                                   *)
(***************************************************************************)
VARIABLES
  active,           \* the mounted view (Sidebar.activeView)
  filters,          \* useState filters of Meetings, Conversations, SemanticAnalysisTable
  debounced,        \* debouncedSearch / debouncedRecipient / debouncedCallId
  timers,           \* pending setTimeout handles of each debounce effect
  dateRange,        \* useState dateRange of Dashboard and Analytics
  loading,          \* useState loading of each view
  error,            \* useState error of each view
  records,          \* meetings / conversations / analysisData / recentCalls
  pending,          \* remote queries in flight, per view
  issued,           \* number of fetch-effect runs of each view so far
  expandedRowId,    \* SemanticAnalysisTable.expandedRowId
  stats,            \* Dashboard.stats
  statsLoading,     \* Dashboard.statsLoading
  meetingsInPeriod, \* Dashboard.meetingsInPeriod
  nEvents,          \* user input events so far
  recordsFrom,      \* history: the fetch whose reply is stored in records (0: none)
  statsFrom,        \* history: the reply (rows) the stored stats were computed from
  latestOk,         \* history: the most recently issued fetch has replied with rows
  sinceEdit,        \* history: time since the last edit of the debounced field, capped
  burst,            \* history: edits, emissions and queries of the current burst of edits
  clock,            \* the browser's clock: local date, time of day and time zone offset
  failed,           \* history: a query of the view has returned an error since its last fetch effect
  toggled,          \* history: the row of the most recent handleRowToggle call
  tornDown          \* history: the timers the most recent teardown of a view cancelled

vars == <<active, filters, debounced, timers, dateRange, loading, error, records,
          pending, issued, expandedRowId, stats, statsLoading, meetingsInPeriod,
          nEvents, recordsFrom, statsFrom, latestOk, sinceEdit, burst, clock,
          failed, toggled, tornDown>>

\* the variables a fetch effect writes
fetchVars == <<loading, error, pending, issued, statsLoading, latestOk, failed>>
\* the variables a debounce effect writes
timerVars == <<timers, sinceEdit>>
\* the variables the completion of a query writes
replyVars == <<records, stats, meetingsInPeriod, recordsFrom, statsFrom>>

InitialFilters(v) ==
  CASE v = "Meetings" -> [search |-> << >>, startDate |-> "", endDate |-> ""]
    [] v = "Conversations" -> [recipient |-> << >>, date |-> ""]
    [] v = "SemanticAnalysisTable" ->
         [callId |-> << >>, sentiment |-> "", alertStatus |-> "", startDate |-> "", endDate |-> ""]

InitialRange(v) == IF v = "Dashboard" THEN "today" ELSE "all"

\* the query of view v for filter state f, debounced text d and range r
BuildQuery(v, f, d, r) ==
  CASE v = "Meetings" -> MeetingsQuery(f, d)
    [] v = "Conversations" -> ConversationsQuery(f, d)
    [] v = "SemanticAnalysisTable" -> AnalysisQuery(f, d)
    [] v = "Analytics" -> AnalyticsQuery(r, [date |-> clock.date, ms |-> clock.ms], clock.tz)
    [] v = "Dashboard" -> DashboardQuery(r, [date |-> clock.date, ms |-> clock.ms], clock.tz)

\* the queries one run of view v's fetch effect puts in flight, as the id-th run
Issue(v, id, f, d, r) ==
  {[id |-> id, kind |-> "rows", query |-> BuildQuery(v, f, d, r),
    filters |-> f, text |-> d, range |-> r]}
  \cup (IF v = "Dashboard"
          THEN {[id |-> id, kind |-> "count",
                 query |-> MeetingsCountQuery(r, [date |-> clock.date, ms |-> clock.ms], clock.tz),
                 filters |-> f, text |-> d, range |-> r]}
          ELSE {})

\* a new debounce timer: setTimeout(() => setDebounced(value), 500)
NewTimer(value) == [value |-> value, elapsed |-> 0, cur |-> TRUE]

(***************************************************************************)
(* Scalar Aggregator of the dashboard                                      *)
(***************************************************************************)
\* a quotient num / den kept exact (den > 0)
Rat(n, d) == [num |-> n, den |-> d]

\* A call row: call_duration is Null or Some(seconds); semantic_analysis is the
\* joined analyses as a sequence: << >> for null or an empty array, <<a>> for an
\* object or a one-element array.
\* Array.isArray(x) ? x[0] : x   is then "the first element, if any".
HasAnalysis(call) == call.semantic_analysis # << >>
FirstAnalysis(call) == call.semantic_analysis[1]

\* call.call_duration || 0
DurationOrZero(call) ==
  IF call.call_duration = Null THEN 0 ELSE CHOOSE n \in call.call_duration : TRUE

\* calls.reduce((sum, call) => sum + (call.call_duration || 0), 0)
RECURSIVE TotalDuration(_)
TotalDuration(calls) ==
  IF calls = << >> THEN 0 ELSE DurationOrZero(Head(calls)) + TotalDuration(Tail(calls))

\* the filter callback with the analysis test dropped: unanalysed calls count as successful
IsSuccessfulIgnoringJoin(call) ==
  \/ ~HasAnalysis(call)
  \/ /\ FirstAnalysis(call).alert_status # "error"
     /\ FirstAnalysis(call).alert_status # "warning"

\* analysis && analysis.alert_status !== 'error' && analysis.alert_status !== 'warning'
IsSuccessful(call) ==
  /\ HasAnalysis(call)
  /\ FirstAnalysis(call).alert_status # "error"
  /\ FirstAnalysis(call).alert_status # "warning"

\* calls.filter(...).length
RECURSIVE SuccessfulCallsCount(_)
SuccessfulCallsCount(calls) ==
  IF calls = << >> THEN 0
  ELSE (IF IsSuccessful(Head(calls)) THEN 1 ELSE 0) + SuccessfulCallsCount(Tail(calls))

\* the success rate without the guard on an empty result set
SuccessRateUnguarded(calls) ==
  Rat(SuccessfulCallsCount(calls) * 100, Len(calls))

\* totalCalls > 0 ? (successfulCallsCount / totalCalls) * 100 : 0
SuccessRate(calls) ==
  IF Len(calls) > 0 THEN Rat(SuccessfulCallsCount(calls) * 100, Len(calls)) ELSE Rat(0, 1)

\* totalDuration / totalCalls with no test of totalCalls
AvgDurationUnguarded(calls) == Rat(TotalDuration(calls), Len(calls))

\* totalCalls > 0 ? totalDuration / totalCalls : 0
AvgDuration(calls) ==
  IF Len(calls) > 0 THEN Rat(TotalDuration(calls), Len(calls)) ELSE Rat(0, 1)

\* the stats written field by field, avgDuration left as it was stored
ComputeStatsKeepingDuration(calls) ==
  [totalCalls |-> Some(Len(calls)),
   avgDuration |-> stats.avgDuration,
   successRate |-> Some(SuccessRate(calls))]

\* the object handed to setStats
ComputeStats(calls) ==
  [totalCalls |-> Some(Len(calls)),
   avgDuration |-> Some(AvgDuration(calls)),
   successRate |-> Some(SuccessRate(calls))]

Missed == <<"m", "i", "s", "s", "e", "d">>
NoAnswer == <<"n", "o", "-", "a", "n", "s", "w", "e", "r">>
Failed == <<"f", "a", "i", "l", "e", "d">>

\* getCallStatus without the toLowerCase: the reason is searched as stored
GetCallStatusCaseSensitive(reason) ==
  IF reason = Null \/ reason = Some(<< >>) THEN "completed"
  ELSE LET asStored == CHOOSE t \in reason : TRUE
       IN IF Includes(asStored, Missed) \/ Includes(asStored, NoAnswer)
               \/ Includes(asStored, Failed)
            THEN "missed"
            ELSE "completed"

\* getCallStatus: a disconnection reason is Null or Some(text); !reason holds
\* for null and for the empty string
GetCallStatus(reason) ==
  IF reason = Null \/ reason = Some(<< >>) THEN "completed"
  ELSE LET lowerReason == ToLowerCase(CHOOSE t \in reason : TRUE)
       IN IF Includes(lowerReason, Missed) \/ Includes(lowerReason, NoAnswer)
               \/ Includes(lowerReason, Failed)
            THEN "missed"
            ELSE "completed"

\* calls.slice(0, 5).map(...): the rows kept as recent calls
RecentCalls(calls) ==
  [i \in 1..Min(Len(calls), RecentLimit) |->
     [id |-> calls[i].id, duration |-> calls[i].call_duration,
      status |-> GetCallStatus(calls[i].disconnection_reason)]]

(***************************************************************************)
(* What the remote store may answer                                        *)
(***************************************************************************)
\* the rows with the identifiers of S, highest identifier first
RECURSIVE RowsOf(_)
RowsOf(S) ==
  IF S = {} THEN << >>
  ELSE LET m == CHOOSE x \in S : \A y \in S : y <= x
       IN <<[id |-> m]>> \o RowsOf(S \ {m})

\* result sets of the table views and of analytics
ResultSets == {RowsOf(S) : S \in SUBSET (1..MaxRows)}

Call(id, duration, analysis) ==
  [id |-> id, call_duration |-> duration, semantic_analysis |-> analysis,
   disconnection_reason |-> Null]

AnalysisOf(alert) == [alert_status |-> alert, sentiment |-> None]

\* result sets of the dashboard's call query
DashResults ==
  {<< >>,
   <<Call(3, Some(30), <<AnalysisOf("warning")>>)>>,
   <<Call(2, Some(60), <<AnalysisOf("ok")>>), Call(1, Null, << >>)>>}

\* exact counts the meetings-count query may return
Counts == {0, 2}

RowIds(rows) == {rows[i].id : i \in 1..Len(rows)}

(***************************************************************************)
(* Initial state: the active view has rendered once and its mount effects  *)
(* have run (the debounce timer is set, the first fetch is in flight).     *)
(***************************************************************************)

\* the clock of the main behaviours: 1 May 2024, 10:00 local time, UTC
MountClock == [date |-> [y |-> 2024, m |-> 5, d |-> 1], ms |-> 36000000, tz |-> 0]

ViewInit ==
  /\ active \in Views
  /\ filters = [v \in DebouncedViews |-> InitialFilters(v)]
  /\ debounced = [v \in DebouncedViews |-> << >>]
  /\ timers = [v \in DebouncedViews |-> IF v = active THEN {NewTimer(<< >>)} ELSE {}]
  /\ dateRange = [v \in RangeViews |-> InitialRange(v)]
  /\ loading = [v \in Views |-> TRUE]
  /\ error = [v \in Views |-> None]
  /\ records = [v \in Views |-> << >>]
  /\ issued = [v \in Views |-> IF v = active THEN 1 ELSE 0]
  /\ pending = [v \in Views |->
                  IF v = active
                    THEN Issue(v, 1, IF v \in DebouncedViews THEN InitialFilters(v) ELSE None,
                               << >>, IF v \in RangeViews THEN InitialRange(v) ELSE None)
                    ELSE {}]
  /\ expandedRowId = Null
  /\ stats = [totalCalls |-> Null, avgDuration |-> Null, successRate |-> Null]
  /\ statsLoading = TRUE
  /\ meetingsInPeriod = Null
  /\ nEvents = 0
  /\ recordsFrom = [v \in Views |-> 0]
  /\ statsFrom = Null
  /\ latestOk = [v \in Views |-> FALSE]
  /\ failed = [v \in Views |-> FALSE]
  /\ toggled = Null
  /\ tornDown = {}
  /\ sinceEdit = [v \in DebouncedViews |-> 0]
  /\ burst = [v \in DebouncedViews |-> [edits |-> 0, emits |-> 0, queries |-> 0]]

(***************************************************************************)
(* Effects                                                                 *)
(***************************************************************************)
\* the debounce effect without its cleanup: the previous timer stays pending
DebounceEffectNoCleanup(v, value) ==
  /\ timers' = [timers EXCEPT ![v] =
                  {[t EXCEPT !.cur = FALSE] : t \in @} \cup {NewTimer(value)}]
  /\ sinceEdit' = [sinceEdit EXCEPT ![v] = 0]

\* useEffect(() => { const handler = setTimeout(...); return () => clearTimeout(handler) },
\*           [filters.<text>]): the cleanup of the previous run clears the handle
\* that run made, then a new timer is started with the new raw value.
DebounceEffect(v, value) ==
  /\ timers' = [timers EXCEPT ![v] = {t \in @ : ~t.cur} \cup {NewTimer(value)}]
  /\ sinceEdit' = [sinceEdit EXCEPT ![v] = 0]

\* The fetch effect of view v for the new filters f, debounced text d and range
\* r: setLoading(true); setError(null); the query is built and sent.  The
\* dashboard also sets statsLoading and sends its meetings-count query.
FetchEffect(v, f, d, r) ==
  /\ loading' = [loading EXCEPT ![v] = TRUE]
  /\ error' = [error EXCEPT ![v] = None]
  /\ issued' = [issued EXCEPT ![v] = @ + 1]
  /\ pending' = [pending EXCEPT ![v] = @ \cup Issue(v, issued[v] + 1, f, d, r)]
  /\ statsLoading' = IF v = "Dashboard" THEN TRUE ELSE statsLoading
  /\ latestOk' = [latestOk EXCEPT ![v] = FALSE]
  /\ failed' = [failed EXCEPT ![v] = FALSE]

(***************************************************************************)
(* User input events of the table views                                    *)
(***************************************************************************)
\* the filter fields other than the debounced text field, with their inputs
OtherFields(v) ==
  CASE v = "Meetings" -> {"startDate", "endDate"}
    [] v = "Conversations" -> {"date"}
    [] v = "SemanticAnalysisTable" -> {"sentiment", "alertStatus", "startDate", "endDate"}

FieldInputs(field) ==
  CASE field = "sentiment" -> SentimentOptions
    [] field = "alertStatus" -> AlertOptions
    [] OTHER -> Dates

\* the burst of edits after one more edit of the debounced field: the edit
\* continues the burst when it follows the previous one by less than the quiet
\* period, and starts a new burst otherwise
BurstAfterEdit(v) ==
  IF sinceEdit[v] < DebounceMs
    THEN [burst[v] EXCEPT !.edits = @ + 1]
    ELSE [edits |-> 1, emits |-> 0, queries |-> 0]

\* handleFilterChange on the debounced text input: setFilters, then the debounce
\* effect re-runs because filters.<text> changed
HandleTextChange(v, value) ==
  /\ v = active /\ v \in DebouncedViews
  /\ nEvents < MaxEvents
  /\ value # filters[v][TextField(v)]
  /\ filters' = [filters EXCEPT ![v][TextField(v)] = value]
  /\ DebounceEffect(v, value)
  /\ burst' = [burst EXCEPT ![v] = BurstAfterEdit(v)]
  /\ nEvents' = nEvents + 1
  /\ UNCHANGED <<clock, toggled, tornDown, active, debounced, dateRange, fetchVars, replyVars, expandedRowId>>

\* handleFilterChange on a date input or a select: setFilters, then the fetch
\* effect re-runs because one of its dependencies changed
\* a filter edit whose debounce effect runs for every field
HandleFilterChangeRestartingTimer(v, field, value) ==
  /\ v = active /\ v \in DebouncedViews
  /\ nEvents < MaxEvents
  /\ field \in OtherFields(v)
  /\ value # filters[v][field]
  /\ filters' = [filters EXCEPT ![v][field] = value]
  /\ DebounceEffect(v, filters[v][TextField(v)])
  /\ FetchEffect(v, filters'[v], debounced[v], None)
  /\ nEvents' = nEvents + 1
  /\ UNCHANGED <<clock, toggled, tornDown, active, debounced, dateRange, replyVars, expandedRowId, burst>>

HandleFilterChange(v, field, value) ==
  /\ v = active /\ v \in DebouncedViews
  /\ nEvents < MaxEvents
  /\ field \in OtherFields(v)
  /\ value # filters[v][field]
  /\ filters' = [filters EXCEPT ![v][field] = value]
  /\ FetchEffect(v, filters'[v], debounced[v], None)
  /\ nEvents' = nEvents + 1
  /\ UNCHANGED <<clock, toggled, tornDown, active, debounced, dateRange, timerVars, replyVars, expandedRowId, burst>>

\* clearFilters: every field becomes ''; each effect re-runs only if one of its
\* dependencies changed
ClearFilters(v) ==
  /\ v = active /\ v \in DebouncedViews
  /\ nEvents < MaxEvents
  /\ filters[v] # InitialFilters(v)
  /\ filters' = [filters EXCEPT ![v] = InitialFilters(v)]
  /\ IF filters[v][TextField(v)] # << >>
       THEN DebounceEffect(v, << >>) /\ burst' = [burst EXCEPT ![v] = BurstAfterEdit(v)]
       ELSE UNCHANGED <<timerVars, burst>>
  /\ IF \E field \in OtherFields(v) : filters[v][field] # ""
       THEN FetchEffect(v, filters'[v], debounced[v], None)
       ELSE UNCHANGED fetchVars
  /\ nEvents' = nEvents + 1
  /\ UNCHANGED <<clock, toggled, tornDown, active, debounced, dateRange, replyVars, expandedRowId>>

\* handleRowToggle that always expands the selected row
HandleRowToggleAlwaysExpand(rowId) ==
  /\ active = "SemanticAnalysisTable"
  /\ nEvents < MaxEvents
  /\ ~loading[active] /\ error[active] = None
  /\ rowId \in RowIds(records[active])
  /\ expandedRowId' = Some(rowId)
  /\ toggled' = Some(rowId)
  /\ nEvents' = nEvents + 1
  /\ UNCHANGED <<clock, tornDown, active, filters, debounced, dateRange, timerVars, fetchVars, replyVars, burst>>

\* handleRowToggle, reachable from a rendered row only: the table is rendered
\* when loading is false, error is null and analysisData is not empty
HandleRowToggle(rowId) ==
  /\ active = "SemanticAnalysisTable"
  /\ nEvents < MaxEvents
  /\ ~loading[active] /\ error[active] = None
  /\ rowId \in RowIds(records[active])
  /\ expandedRowId' = IF expandedRowId = Some(rowId) THEN Null ELSE Some(rowId)
  /\ toggled' = Some(rowId)
  /\ nEvents' = nEvents + 1
  /\ UNCHANGED <<clock, tornDown, active, filters, debounced, dateRange, timerVars, fetchVars, replyVars, burst>>

(***************************************************************************)
(* Time and the debounce timer                                             *)
(***************************************************************************)
\* TickMs milliseconds pass (what is past the quiet period is not counted)
Tick ==
  /\ active \in DebouncedViews
  /\ sinceEdit[active] < DebounceMs
  /\ sinceEdit' = [sinceEdit EXCEPT ![active] = Min(@ + TickMs, DebounceMs)]
  /\ timers' = [timers EXCEPT ![active] =
                  {[t EXCEPT !.elapsed = Min(@ + TickMs, DebounceMs)] : t \in @}]
  /\ UNCHANGED <<clock, toggled, tornDown, active, filters, debounced, dateRange, fetchVars, replyVars,
                 expandedRowId, nEvents, burst>>

\* a timer may run its callback as soon as its delay has passed
TimerDueEarly(t) == TRUE

\* a timer runs its callback once the 500 ms have passed
TimerDue(t) == t.elapsed >= DebounceMs

\* the timer callback: setDebounced(value); the fetch effect re-runs if the
\* debounced value changed
TimerFire(v) ==
  /\ v = active /\ v \in DebouncedViews
  /\ \E t \in timers[v] :
       /\ TimerDue(t)
       /\ timers' = [timers EXCEPT ![v] = @ \ {t}]
       /\ debounced' = [debounced EXCEPT ![v] = t.value]
       /\ IF t.value # debounced[v]
            THEN FetchEffect(v, filters[v], t.value, None)
            ELSE UNCHANGED fetchVars
       /\ burst' = [burst EXCEPT ![v] =
                      [@ EXCEPT !.emits = @ + 1,
                                !.queries = @ + (IF t.value # debounced[v] THEN 1 ELSE 0)]]
  /\ UNCHANGED <<clock, toggled, tornDown, active, filters, dateRange, sinceEdit, replyVars, expandedRowId, nEvents>>

(***************************************************************************)
(* Date-range selectors of the dashboard and of analytics                  *)
(***************************************************************************)
\* Analytics renders its range buttons only in its last return: not while
\* loading, not with an error, not when processedData is null (no rows)
RangeButtonsRendered(v) ==
  \/ v = "Dashboard"
  \/ v = "Analytics" /\ ~loading[v] /\ error[v] = None /\ records[v] # << >>

\* DateRangeButton onClick: setDateRange(range); the fetch effect re-runs because
\* dateRange changed
SetDateRange(v, range) ==
  /\ v = active /\ v \in RangeViews
  /\ nEvents < MaxEvents
  /\ RangeButtonsRendered(v)
  /\ range \in RangeTokens(v) /\ range # dateRange[v]
  /\ dateRange' = [dateRange EXCEPT ![v] = range]
  /\ FetchEffect(v, None, << >>, range)
  /\ nEvents' = nEvents + 1
  /\ UNCHANGED <<clock, toggled, tornDown, active, filters, debounced, timerVars, replyVars, expandedRowId, burst>>

(***************************************************************************)
(* Completion of a remote query                                            *)
(***************************************************************************)
ErrorMessage(v) ==
  CASE v = "Meetings" -> "Failed to load scheduled meetings."
    [] v = "Conversations" -> "Failed to load conversations. Please check your connection and Supabase configuration."
    [] v = "SemanticAnalysisTable" -> "Failed to load analysis data."
    [] v = "Analytics" -> "Failed to load analytics data."
    [] v = "Dashboard" -> "Failed to load dashboard data. Please try again later."

\* an error continuation that also empties the stored rows
FetchFailedClearingRecords(v) ==
  /\ v = active /\ v # "Dashboard"
  /\ \E q \in pending[v] :
       /\ pending' = [pending EXCEPT ![v] = @ \ {q}]
       /\ error' = [error EXCEPT ![v] = ErrorMessage(v)]
       /\ records' = [records EXCEPT ![v] = << >>]
       /\ loading' = [loading EXCEPT ![v] = FALSE]
       /\ failed' = [failed EXCEPT ![v] = TRUE]
  /\ UNCHANGED <<clock, toggled, tornDown, active, filters, debounced, dateRange, timerVars, issued,
                 stats, meetingsInPeriod, recordsFrom, statsFrom,
                 statsLoading, latestOk, expandedRowId, nEvents, burst>>

\* the continuation after `await query` of fetchMeetings, fetchConversations,
\* fetchAnalysisData and fetchAnalytics when the store reports an error:
\* setError(message); setLoading(false)
FetchFailed(v) ==
  /\ v = active /\ v # "Dashboard"
  /\ \E q \in pending[v] :
       /\ pending' = [pending EXCEPT ![v] = @ \ {q}]
       /\ error' = [error EXCEPT ![v] = ErrorMessage(v)]
       /\ loading' = [loading EXCEPT ![v] = FALSE]
       /\ failed' = [failed EXCEPT ![v] = TRUE]
  /\ UNCHANGED <<clock, toggled, tornDown, active, filters, debounced, dateRange, timerVars, replyVars, issued,
                 statsLoading, latestOk, expandedRowId, nEvents, burst>>

\* the same continuation when the store returns rows: setRecords(data);
\* setLoading(false)
FetchSucceeded(v, rows) ==
  /\ v = active /\ v # "Dashboard"
  /\ \E q \in pending[v] :
       /\ pending' = [pending EXCEPT ![v] = @ \ {q}]
       /\ records' = [records EXCEPT ![v] = rows]
       /\ loading' = [loading EXCEPT ![v] = FALSE]
       /\ recordsFrom' = [recordsFrom EXCEPT ![v] = q.id]
       /\ latestOk' = [latestOk EXCEPT ![v] = @ \/ q.id = issued[v]]
  /\ UNCHANGED <<clock, toggled, tornDown, active, filters, debounced, dateRange, timerVars, error, issued,
                 stats, statsLoading, meetingsInPeriod, statsFrom, expandedRowId,
                 nEvents, burst, failed>>

\* fetchDashboardData after its await, callsError set: setError(message);
\* setLoading(false); setStatsLoading(false); return
DashboardFailed ==
  /\ active = "Dashboard"
  /\ \E q \in pending["Dashboard"] :
       /\ q.kind = "rows"
       /\ pending' = [pending EXCEPT !["Dashboard"] = @ \ {q}]
       /\ error' = [error EXCEPT !["Dashboard"] = ErrorMessage("Dashboard")]
       /\ loading' = [loading EXCEPT !["Dashboard"] = FALSE]
       /\ statsLoading' = FALSE
       /\ failed' = [failed EXCEPT !["Dashboard"] = TRUE]
  /\ UNCHANGED <<clock, toggled, tornDown, active, filters, debounced, dateRange, timerVars, replyVars, issued,
                 latestOk, expandedRowId, nEvents, burst>>

\* fetchDashboardData after its await, with rows: the stats are computed and
\* stored in one setStats, then the recent calls
DashboardSucceeded(calls) ==
  /\ active = "Dashboard"
  /\ \E q \in pending["Dashboard"] :
       /\ q.kind = "rows"
       /\ pending' = [pending EXCEPT !["Dashboard"] = @ \ {q}]
       /\ stats' = ComputeStats(calls)
       /\ statsLoading' = FALSE
       /\ records' = [records EXCEPT !["Dashboard"] = RecentCalls(calls)]
       /\ loading' = [loading EXCEPT !["Dashboard"] = FALSE]
       /\ recordsFrom' = [recordsFrom EXCEPT !["Dashboard"] = q.id]
       /\ statsFrom' = Some([id |-> q.id, calls |-> calls])
       /\ latestOk' = [latestOk EXCEPT !["Dashboard"] = @ \/ q.id = issued["Dashboard"]]
  /\ UNCHANGED <<clock, toggled, tornDown, active, filters, debounced, dateRange, timerVars, error, issued,
                 meetingsInPeriod, expandedRowId, nEvents, burst, failed>>

\* Dashboard.fetchMeetings after its await, error set: setMeetingsInPeriod(0)
MeetingsCountFailed ==
  /\ active = "Dashboard"
  /\ \E q \in pending["Dashboard"] :
       /\ q.kind = "count"
       /\ pending' = [pending EXCEPT !["Dashboard"] = @ \ {q}]
       /\ meetingsInPeriod' = Some(0)
       /\ failed' = [failed EXCEPT !["Dashboard"] = TRUE]
  /\ UNCHANGED <<clock, toggled, tornDown, active, filters, debounced, dateRange, timerVars, loading, error, issued,
                 statsLoading, latestOk, records, stats, recordsFrom, statsFrom,
                 expandedRowId, nEvents, burst>>

\* Dashboard.fetchMeetings after its await, with a count: setMeetingsInPeriod(count)
MeetingsCountSucceeded(count) ==
  /\ active = "Dashboard"
  /\ \E q \in pending["Dashboard"] :
       /\ q.kind = "count"
       /\ pending' = [pending EXCEPT !["Dashboard"] = @ \ {q}]
       /\ meetingsInPeriod' = Some(count)
  /\ UNCHANGED <<clock, toggled, tornDown, active, filters, debounced, dateRange, timerVars, loading, error, issued,
                 statsLoading, latestOk, records, stats, recordsFrom, statsFrom,
                 expandedRowId, nEvents, burst, failed>>

(***************************************************************************)
(* Navigation: the sidebar's navigate(view) replaces the mounted view.     *)
(* The view that leaves is torn down: the cleanup of its debounce effect   *)
(* runs and its state is dropped, so the replies still in flight for it    *)
(* have nothing to write to.  The view that enters is mounted with its     *)
(* initial state, and its mount effects run.                               *)
(***************************************************************************)
\* a teardown that runs no cleanup: the pending timers stay
EffectCleanupSkipped(ts) == ts

\* return () => clearTimeout(handler): the handle of the last effect run is cleared
EffectCleanup(ts) == {t \in ts : ~t.cur}

Navigate(v) ==
  /\ v # active
  /\ nEvents < MaxEvents
  /\ active' = v
  /\ tornDown' = IF active \in DebouncedViews
                   THEN timers[active] \ EffectCleanup(timers[active])
                   ELSE {}
  /\ timers' = [w \in DebouncedViews |->
                  IF w = v THEN {NewTimer(<< >>)} ELSE EffectCleanup(timers[w])]
  /\ filters' = [w \in DebouncedViews |-> InitialFilters(w)]
  /\ debounced' = [w \in DebouncedViews |-> << >>]
  /\ dateRange' = [w \in RangeViews |-> InitialRange(w)]
  /\ loading' = [w \in Views |-> TRUE]
  /\ error' = [w \in Views |-> None]
  /\ records' = [w \in Views |-> << >>]
  /\ issued' = [w \in Views |-> IF w = v THEN 1 ELSE 0]
  /\ pending' = [w \in Views |->
                   IF w = v
                     THEN Issue(v, 1, IF v \in DebouncedViews THEN InitialFilters(v) ELSE None,
                                << >>, IF v \in RangeViews THEN InitialRange(v) ELSE None)
                     ELSE {}]
  /\ expandedRowId' = Null
  /\ toggled' = Null
  /\ stats' = [totalCalls |-> Null, avgDuration |-> Null, successRate |-> Null]
  /\ statsLoading' = TRUE
  /\ meetingsInPeriod' = Null
  /\ recordsFrom' = [w \in Views |-> 0]
  /\ statsFrom' = Null
  /\ latestOk' = [w \in Views |-> FALSE]
  /\ failed' = [w \in Views |-> FALSE]
  /\ sinceEdit' = [w \in DebouncedViews |-> 0]
  /\ burst' = [w \in DebouncedViews |-> [edits |-> 0, emits |-> 0, queries |-> 0]]
  /\ nEvents' = nEvents + 1
  /\ UNCHANGED clock

(***************************************************************************)
(* Rendering                                                               *)
(***************************************************************************)
\* a render that tests loading only: the stored records show beside an error
DisplayedIgnoringError(v) == IF loading[v] THEN << >> ELSE records[v]

\* The records a view renders: {loading ? <skeleton> : error ? <message> :
\* records.length === 0 ? <empty> : records.map(...)}
Displayed(v) ==
  IF loading[v] THEN << >>
  ELSE IF error[v] # None THEN << >>
  ELSE records[v]

(***************************************************************************)
(* The views as one state machine                                          *)
(***************************************************************************)
Init == clock = MountClock /\ ViewInit

Next ==
  \/ \E v \in DebouncedViews, value \in Texts : HandleTextChange(v, value)
  \/ \E v \in DebouncedViews : \E field \in OtherFields(v) : \E value \in FieldInputs(field) :
       HandleFilterChange(v, field, value)
  \/ \E v \in DebouncedViews : ClearFilters(v)
  \/ \E rowId \in 1..MaxRows : HandleRowToggle(rowId)
  \/ Tick
  \/ \E v \in DebouncedViews : TimerFire(v)
  \/ \E v \in RangeViews : \E range \in RangeTokens(v) : SetDateRange(v, range)
  \/ \E v \in Views : FetchFailed(v)
  \/ \E v \in Views, rows \in ResultSets : FetchSucceeded(v, rows)
  \/ DashboardFailed
  \/ \E calls \in DashResults : DashboardSucceeded(calls)
  \/ MeetingsCountFailed
  \/ \E count \in Counts : MeetingsCountSucceeded(count)
  \/ \E v \in Views : Navigate(v)

Spec == Init /\ [][Next]_vars

(***************************************************************************)
(* The dashboard's aggregation over many result sets: the dashboard is      *)
(* mounted and its first call query answers with any of CallLists.          *)
(***************************************************************************)
\* the shapes of a call row: its duration and its joined analyses
CallKinds ==
  {[duration |-> Null, analysis |-> << >>],
   [duration |-> Some(60), analysis |-> <<AnalysisOf("ok")>>],
   [duration |-> Some(30), analysis |-> <<AnalysisOf("warning")>>],
   [duration |-> Some(0), analysis |-> <<AnalysisOf("error")>>],
   [duration |-> Some(45), analysis |-> <<AnalysisOf(None)>>]}

\* the sequences over S of length n
RECURSIVE SeqsOfLen(_, _)
SeqsOfLen(S, n) ==
  IF n = 0 THEN {<< >>}
  ELSE {<<x>> \o t : x \in S, t \in SeqsOfLen(S, n - 1)}

SeqsUpTo(S, n) == UNION {SeqsOfLen(S, k) : k \in 0..n}

\* call rows of the given shapes, newest (highest identifier) first
CallsOf(kinds) ==
  [i \in 1..Len(kinds) |->
     Call(Len(kinds) - i + 1, kinds[i].duration, kinds[i].analysis)]

\* 10 calls of a 7-day window: 6 analysed, 4 of them ok and 2 warning
ScenarioCalls ==
  CallsOf([i \in 1..10 |->
             IF i <= 4 THEN [duration |-> Some(60), analysis |-> <<AnalysisOf("ok")>>]
             ELSE IF i <= 6 THEN [duration |-> Some(30), analysis |-> <<AnalysisOf("warning")>>]
             ELSE [duration |-> Null, analysis |-> << >>]])

CallLists == {CallsOf(k) : k \in SeqsUpTo(CallKinds, MaxCalls)} \cup {ScenarioCalls}

InitStats == clock = MountClock /\ ViewInit /\ active = "Dashboard"

NextStats == \E calls \in CallLists : DashboardSucceeded(calls)

SpecStats == InitStats /\ [][NextStats]_vars

(***************************************************************************)
(* The call-outcome classifier over many disconnection reasons: the         *)
(* dashboard is mounted and its first call query answers with calls whose   *)
(* reasons are any of Reasons.                                              *)
(***************************************************************************)
Reasons ==
  {Null,
   Some(<< >>),
   Some(<<"M", "I", "S", "S", "E", "D">>),
   Some(<<"C", "u", "s", "t", "o", "m", "e", "r", " ", "r", "e", "q", "u", "e", "s", "t", "e", "d", " ", "n", "o", "-", "a", "n", "s", "w", "e", "r", " ", "r", "e", "t", "r", "y">>),
   Some(<<"C", "a", "l", "l", " ", "F", "a", "i", "l", "e", "d">>),
   Some(<<"u", "s", "e", "r", "_", "h", "a", "n", "g", "u", "p">>),
   Some(<<"m", "i", "s", "s", " ", "e", "d">>),
   Some(<<"N", "o", "-", "A", "n", "s", "w", "e", "r">>)}

\* call rows with the given disconnection reasons, newest first
CallsWithReasons(reasons) ==
  [i \in 1..Len(reasons) |->
     [Call(Len(reasons) - i + 1, Null, << >>) EXCEPT !.disconnection_reason = reasons[i]]]

ReasonCallLists == {CallsWithReasons(r) : r \in SeqsUpTo(Reasons, MaxCalls)}

InitStatus == clock = MountClock /\ ViewInit /\ active = "Dashboard"

NextStatus == \E calls \in ReasonCallLists : DashboardSucceeded(calls)

SpecStatus == InitStatus /\ [][NextStatus]_vars

(***************************************************************************)
(* Frequency Aggregator: countOccurrences                                  *)
(*                                                                         *)
(* A JSON value is null, a string, an array or an object.  An array is the *)
(* sequence of its elements, each a string or a value of another type with *)
(* its String() form; an object is the sequence of its keys in the order   *)
(* they were created.  A label is a sequence of characters.                *)
(***************************************************************************)
JNull == [tag |-> "null"]
JString(label) == [tag |-> "string", label |-> label]
JArray(elems) == [tag |-> "array", elems |-> elems]
JObject(keys) == [tag |-> "object", keys |-> keys]
\* array elements
Str(label) == [isString |-> TRUE, label |-> label]
NonStr(label) == [isString |-> FALSE, label |-> label]

\* An integer-like property name: a canonical decimal numeral (no leading zero).
\* Numerals of up to 9 digits are all below the largest array index 2^32 - 2;
\* longer labels do not occur in the inputs.
IsArrayIndex(key) ==
  /\ key # << >>
  /\ \A i \in 1..Len(key) : IsDigit(key[i])
  /\ Len(key) > 1 => key[1] # "0"
  /\ Len(key) <= 9

\* the elements of seq at the positions of P, lowest numeric key first
RECURSIVE AscendingByIndex(_, _)
AscendingByIndex(seq, P) ==
  IF P = {} THEN << >>
  ELSE LET m == CHOOSE i \in P :
                  \A j \in P : DigitsValue(seq[i].key, 0) <= DigitsValue(seq[j].key, 0)
       IN <<seq[m]>> \o AscendingByIndex(seq, P \ {m})

\* the subsequence of seq at the positions of P
RECURSIVE InOrder(_, _)
InOrder(seq, P) ==
  IF P = {} THEN << >>
  ELSE LET m == CHOOSE i \in P : \A j \in P : i <= j
       IN <<seq[m]>> \o InOrder(seq, P \ {m})

\* own property order of a JavaScript object whose properties were created in
\* the order of props: integer-like names ascending, then the other names in
\* creation order
OwnPropertyOrder(props) ==
  LET idx == {i \in 1..Len(props) : IsArrayIndex(props[i].key)}
  IN AscendingByIndex(props, idx) \o InOrder(props, (1..Len(props)) \ idx)

\* Object.entries(counter)
Entries(counter) == OwnPropertyOrder(counter)

\* Object.keys(item) of an object item
ObjectKeys(item) ==
  LET ordered == OwnPropertyOrder([i \in 1..Len(item.keys) |-> [key |-> item.keys[i]]])
  IN [i \in 1..Len(ordered) |-> ordered[i].key]

\* counter[k] = (counter[k] || 0) + 1, counter kept in creation order
Increment(counter, k) ==
  IF \E i \in 1..Len(counter) : counter[i].key = k
    THEN [i \in 1..Len(counter) |->
            IF counter[i].key = k THEN [counter[i] EXCEPT !.count = @ + 1] ELSE counter[i]]
    ELSE Append(counter, [key |-> k, count |-> 1])

RECURSIVE IncrementAll(_, _)
IncrementAll(counter, ks) ==
  IF ks = << >> THEN counter ELSE IncrementAll(Increment(counter, Head(ks)), Tail(ks))

\* the labels one item adds to the counter: the keys of an object, the string
\* elements of an array, nothing for anything else
CountedLabels(item) ==
  CASE item.tag = "object" -> ObjectKeys(item)
    [] item.tag = "array" ->
         LET strs == {i \in 1..Len(item.elems) : item.elems[i].isString}
             kept == InOrder(item.elems, strs)
         IN [i \in 1..Len(kept) |-> kept[i].label]
    [] OTHER -> << >>

\* items.forEach(...)
RECURSIVE CountAll(_, _)
CountAll(counter, items) ==
  IF items = << >> THEN counter
  ELSE CountAll(IncrementAll(counter, CountedLabels(Head(items))), Tail(items))

\* .sort(([, a], [, b]) => b - a): a stable sort, highest count first
InsertStable(sorted, e) ==
  LET k == Cardinality({i \in 1..Len(sorted) : sorted[i].count >= e.count})
  IN SubSeq(sorted, 1, k) \o <<e>> \o SubSeq(sorted, k + 1, Len(sorted))

RECURSIVE SortByCountDesc(_, _)
SortByCountDesc(sorted, rest) ==
  IF rest = << >> THEN sorted
  ELSE SortByCountDesc(InsertStable(sorted, Head(rest)), Tail(rest))

\* countOccurrences(items)
CountOccurrences(items) ==
  LET sorted == SortByCountDesc(<< >>, Entries(CountAll(<< >>, items)))
  IN SubSeq(sorted, 1, Min(Len(sorted), TopK))

\* analysisData.map(d => d.positive_indicators)
PositiveIndicators(rows) == [i \in 1..Len(rows) |-> rows[i].positive_indicators]

\* processedData.topPositive of Analytics
TopPositive == CountOccurrences(PositiveIndicators(records["Analytics"]))

(***************************************************************************)
(* The Frequency Aggregator over many inputs: analytics is mounted and its *)
(* first query answers with rows whose positive indicators are any of      *)
(* IndicatorLists.                                                         *)
(***************************************************************************)
La == <<"a">>
Lb == <<"b">>
L1 == <<"1">>

ItemValues ==
  {JNull,
   JString(La),
   JArray(<<Str(La), Str(Lb)>>),
   JArray(<<Str(Lb), Str(L1)>>),
   JArray(<<NonStr(<<"7">>)>>),
   JArray(<<Str(<<"c">>), Str(<<"d">>), Str(<<"e">>), Str(<<"f">>), Str(<<"g">>), Str(La)>>),
   JObject(<<Lb>>),
   JObject(<<La, L1>>)}

\* [["a","b"], {"b":true}, "a", null]
ExampleItems == <<JArray(<<Str(La), Str(Lb)>>), JObject(<<Lb>>), JString(La), JNull>>

IndicatorLists == SeqsUpTo(ItemValues, MaxItems) \cup {ExampleItems}

AnalysisRows(items) ==
  [i \in 1..Len(items) |-> [id |-> Len(items) - i + 1, positive_indicators |-> items[i]]]

InitCount == clock = MountClock /\ ViewInit /\ active = "Analytics"

NextCount == \E items \in IndicatorLists : FetchSucceeded("Analytics", AnalysisRows(items))

SpecCount == InitCount /\ [][NextCount]_vars

(***************************************************************************)
(* Classifier of the sentiment and alert status labels, and the analytics  *)
(* aggregation over the rows of semantic_analysis.  A label is Null or     *)
(* Some(text); agent_confidence is Null or Some(score), the score counted  *)
(* in hundredths.                                                          *)
(***************************************************************************)
Unknown == <<"u", "n", "k", "n", "o", "w", "n">>
Positive == <<"p", "o", "s", "i", "t", "i", "v", "e">>
Negative == <<"n", "e", "g", "a", "t", "i", "v", "e">>
Neutral == <<"n", "e", "u", "t", "r", "a", "l">>
Ok == <<"o", "k">>
Warning == <<"w", "a", "r", "n", "i", "n", "g">>
Error == <<"e", "r", "r", "o", "r">>

\* text?.toLowerCase() || 'unknown': null and the empty string give 'unknown',
\* every other label gives its lower-cased text
StatusOf(label) ==
  IF label = Null THEN Unknown
  ELSE LET lowered == ToLowerCase(CHOOSE t \in label : TRUE)
       IN IF lowered = << >> THEN Unknown ELSE lowered

\* StatusBadge: the text the badge shows and the style it is drawn with
StatusBadge(label, type) ==
  LET status == StatusOf(label)
  IN [status |-> status,
      styles |->
        CASE type = "sentiment" /\ status = Positive -> "green"
          [] type = "sentiment" /\ status = Negative -> "red"
          [] type = "sentiment" /\ status = Neutral -> "sky"
          [] type = "alert" /\ status = Ok -> "green"
          [] type = "alert" /\ status = Warning -> "yellow"
          [] type = "alert" /\ status = Error -> "red"
          [] OTHER -> "slate"]

\* analysisData.reduce((acc, curr) => { acc[sentiment] = (acc[sentiment] || 0) + 1 }, {})
SentimentCounts(rows) ==
  IncrementAll(<< >>, [i \in 1..Len(rows) |-> StatusOf(rows[i].sentiment)])

\* x / y of two JavaScript numbers, y >= 0: 0 / 0 is NaN; a quotient with
\* den = 0 stands for Infinity
Divide(x, y) == IF x = 0 /\ y = 0 THEN NaN ELSE Num(Rat(x, y))

\* analysisData.filter(d => d.agent_confidence !== null)
WithConfidence(rows) ==
  InOrder(rows, {i \in 1..Len(rows) : rows[i].agent_confidence # Null})

\* .reduce((sum, curr) => sum + (curr.agent_confidence || 0), 0)
RECURSIVE ConfidenceSum(_)
ConfidenceSum(rows) ==
  IF rows = << >> THEN 0
  ELSE (CHOOSE n \in Head(rows).agent_confidence : TRUE) + ConfidenceSum(Tail(rows))

\* the average taken over every row, the rows without a score counted as 0
AvgConfidenceOverAllRows(rows) ==
  Divide(ConfidenceSum(WithConfidence(rows)), Len(rows))

\* processedData.avgConfidence
AvgConfidence(rows) ==
  Divide(ConfidenceSum(WithConfidence(rows)), Len(WithConfidence(rows)))

\* analysisData.filter(d => d.sentiment).length: null and '' are not counted
TotalSentiments(rows) ==
  Cardinality({i \in 1..Len(rows) :
                 rows[i].sentiment # Null /\ rows[i].sentiment # Some(<< >>)})

\* useMemo: null for an empty result set, the aggregation output otherwise
ProcessedData(rows) ==
  IF rows = << >> THEN Null
  ELSE Some([sentimentCounts |-> SentimentCounts(rows),
             totalSentiments |-> TotalSentiments(rows),
             avgConfidence |-> AvgConfidence(rows)])

\* the widths of the distribution bar, in per cent, one per counted sentiment:
\* (count / processedData.totalSentiments) * 100
SentimentShares(data) ==
  [i \in 1..Len(data.sentimentCounts) |->
     Divide(data.sentimentCounts[i].count * 100, data.totalSentiments)]

\* isNaN(avgConfidence) ? 'N/A' : (avgConfidence * 100).toFixed(1) + '%'
ConfidenceCard(data) ==
  IF data.avgConfidence.nan THEN "N/A" ELSE "percentage"

(***************************************************************************)
(* The classifier and the analytics aggregation over many result sets:     *)
(* analytics or the analysis table is mounted and its first query answers  *)
(* with any of AnalysisResults.                                            *)
(***************************************************************************)
\* rows of one result set of semantic_analysis
MaxAnalyses == 2

AnalysisKinds ==
  {[sentiment |-> Null, alert_status |-> Null, agent_confidence |-> Null],
   [sentiment |-> Some(<< >>), alert_status |-> Some(Ok), agent_confidence |-> Null],
   [sentiment |-> Some(<<"P", "o", "s", "i", "t", "i", "v", "e">>),
    alert_status |-> Some(<<"W", "A", "R", "N", "I", "N", "G">>), agent_confidence |-> Some(90)],
   [sentiment |-> Some(Positive), alert_status |-> Some(Ok), agent_confidence |-> Some(50)],
   [sentiment |-> Some(Negative), alert_status |-> Some(Error), agent_confidence |-> Some(0)],
   [sentiment |-> Some(Neutral), alert_status |-> Some(Warning), agent_confidence |-> Null],
   [sentiment |-> Some(<<"m", "i", "x", "e", "d">>),
    alert_status |-> Some(<<"c", "r", "i", "t", "i", "c", "a", "l">>), agent_confidence |-> Some(70)]}

AnalysesOf(kinds) ==
  [i \in 1..Len(kinds) |->
     [id |-> Len(kinds) - i + 1,
      sentiment |-> kinds[i].sentiment,
      alert_status |-> kinds[i].alert_status,
      agent_confidence |-> kinds[i].agent_confidence]]

AnalysisResults == {AnalysesOf(k) : k \in SeqsUpTo(AnalysisKinds, MaxAnalyses)}

InitAnalysis == clock = MountClock /\ ViewInit /\ active \in {"Analytics", "SemanticAnalysisTable"}

NextAnalysis ==
  \E v \in {"Analytics", "SemanticAnalysisTable"}, rows \in AnalysisResults :
    FetchSucceeded(v, rows)

SpecAnalysis == InitAnalysis /\ [][NextAnalysis]_vars

(***************************************************************************)
(* The date windows over many clocks: the dashboard or analytics is        *)
(* mounted at any of Clocks and the user picks date ranges.                *)
(***************************************************************************)
\* days around the ends of months and years, one of them after 29 February
ClockDates ==
  {[y |-> 2024, m |-> 3, d |-> 1], [y |-> 2024, m |-> 1, d |-> 5],
   [y |-> 2025, m |-> 3, d |-> 3], [y |-> 2024, m |-> 5, d |-> 31]}
\* 00:00, 10:00, 18:30 and 23:59:59.999
ClockTimes == {0, 36000000, 66600000, EndOfDayMs}
\* UTC-5, UTC and UTC+5:30, in minutes
ClockZones == {0 - 300, 0, 330}

Clocks == {[date |-> d, ms |-> t, tz |-> z] : d \in ClockDates, t \in ClockTimes, z \in ClockZones}

InitWindow == clock \in Clocks /\ ViewInit /\ active \in RangeViews

NextWindow ==
  \/ \E v \in RangeViews : \E range \in RangeTokens(v) : SetDateRange(v, range)
  \/ FetchSucceeded("Analytics", RowsOf({1}))

SpecWindow == InitWindow /\ [][NextWindow]_vars

(***************************************************************************)
(* Properties                                                              *)
(***************************************************************************)
\* the queries of view v still in flight that carry rows
RowQueries(v) == {q \in pending[v] : q.kind = "rows"}

\* C1: in every view, once no query is pending and the most recently issued
\* query has answered with rows, the stored records (and the dashboard's stats)
\* are the reply to that most recent query, whatever the order in which the
\* replies arrived.
C1_StaleReplyDiscarded ==
  \A v \in Views :
    (RowQueries(v) = {} /\ latestOk[v]) =>
      /\ recordsFrom[v] = issued[v]
      /\ v = "Dashboard" => \E x \in statsFrom : x.id = issued[v]

\* C2: per debounced field at most one timer is pending; the debounced value
\* changes only when a timer fires 500 ms after the most recent edit, and it
\* becomes the most recent raw value; an edit cancels the pending timer and
\* starts a new one for the new value.
C2_AtMostOneTimer == \A v \in DebouncedViews : Cardinality(timers[v]) <= 1

\* (a navigation step drops the state of the view that leaves and mounts the
\* next one afresh: it is neither an edit nor an emission)
C2_DebouncedStep ==
  \A v \in DebouncedViews \cap {IF active' = active THEN active ELSE None} :
    /\ debounced'[v] # debounced[v] =>
         /\ sinceEdit[v] >= DebounceMs
         /\ \E t \in timers[v] : t.elapsed >= DebounceMs /\ timers'[v] = timers[v] \ {t}
         /\ debounced'[v] = filters[v][TextField(v)]
    /\ filters'[v][TextField(v)] # filters[v][TextField(v)] =>
         /\ timers'[v] = {NewTimer(filters'[v][TextField(v)])}
         /\ debounced'[v] = debounced[v]

C2_Debounce == [](C2_AtMostOneTimer) /\ [][C2_DebouncedStep]_vars

\* C2 witness: an edit has cancelled a pending timer, and the timer of the last
\* edit has fired and set a new debounced value
C2_Witness ==
  \E v \in DebouncedViews :
    burst[v].edits >= 2 /\ timers[v] = {} /\ debounced[v] # << >>

\* C3: a burst of edits, each following the previous one by less than the quiet
\* period, emits nothing while it lasts and exactly one value once its timer has
\* fired, the last edit; the burst causes at most one query.
C3_OneEmissionPerBurst ==
  \A v \in DebouncedViews \cap {active} :
    /\ burst[v].emits <= 1
    /\ burst[v].queries <= 1
    /\ sinceEdit[v] < DebounceMs => burst[v].emits = 0 /\ timers[v] # {}
    /\ timers[v] = {} => burst[v].emits = 1 /\ debounced[v] = filters[v][TextField(v)]

\* C3 witness: a burst of two edits has emitted once and caused one query
C3_Witness ==
  \E v \in DebouncedViews :
    burst[v].edits >= 2 /\ burst[v].emits = 1 /\ burst[v].queries = 1 /\ timers[v] = {}

\* text that is a decimal integer: an optional sign, then digits only
IsValidInteger(text) ==
  LET u == IF text # << >> /\ Head(text) \in {"-", "+"} THEN Tail(text) ELSE text
  IN u # << >> /\ \A i \in 1..Len(u) : IsDigit(u[i])

HasCallIdPredicate(query) ==
  \E i \in 1..Len(query.preds) : query.preds[i].col = "call_id"

\* C4: a query of SemanticAnalysisTable built from a debounced call-id text that
\* is empty or not a valid integer carries no call_id predicate.
C4_UnparsableIdOmitted ==
  \A q \in pending["SemanticAnalysisTable"] :
    ~IsValidInteger(q.text) => ~HasCallIdPredicate(q.query)

\* C5: the expanded row identifier is none or the identifier of a row of the
\* current result set.
C5_ExpandedRowInResultSet ==
  \/ expandedRowId = Null
  \/ \E id \in RowIds(records["SemanticAnalysisTable"]) : expandedRowId = Some(id)

\* C6 as stated: in every view, loading implies that records is empty, and a
\* non-null error implies that records is empty.
C6_LoadingOrErrorMeansNoRecords ==
  \A v \in Views :
    /\ loading[v] => records[v] = << >>
    /\ error[v] # None => records[v] = << >>

\* C6 as amended: in every view, while loading is true or error is non-null no
\* record is displayed; the stored records may then be non-empty, and they are
\* non-empty only after a query has answered with rows.
C6_LoadingOrErrorDisplaysNoRecords ==
  \A v \in Views :
    /\ (loading[v] \/ error[v] # None) => Displayed(v) = << >>
    /\ records[v] # << >> => recordsFrom[v] > 0

\* C6 witness: a failed query has left an error beside stored records, which are
\* not displayed
C6_Witness ==
  \E v \in Views :
    /\ error[v] # None /\ ~loading[v]
    /\ records[v] # << >> /\ Displayed(v) = << >>

\* the calls the stored stats were computed from
StatsCalls == CHOOSE x \in statsFrom : TRUE

\* the calls that have an analysis whose alert status is neither warning nor error
SuccessfulSet(calls) ==
  {i \in 1..Len(calls) :
     /\ calls[i].semantic_analysis # << >>
     /\ calls[i].semantic_analysis[1].alert_status \notin {"warning", "error"}}

\* C7: the dashboard counts a call as successful iff it has an analysis whose
\* alert status is neither warning nor error; a call without analysis is not
\* successful and is still counted in the total.
C7_SuccessfulIffAnalysedAndNoAlert ==
  statsFrom # Null =>
    LET calls == StatsCalls.calls
    IN /\ SuccessfulCallsCount(calls) = Cardinality(SuccessfulSet(calls))
       /\ stats.totalCalls = Some(Len(calls))
       /\ Len(calls) > 0 =>
            \E r \in stats.successRate :
              r.den > 0 /\ r.num * Len(calls) = 100 * Cardinality(SuccessfulSet(calls)) * r.den

\* C7 witness: stats computed from a result set with an unanalysed call, a
\* successful call and a call with a warning
C7_Witness ==
  /\ statsFrom # Null
  /\ LET calls == StatsCalls.calls
     IN /\ \E i \in 1..Len(calls) : calls[i].semantic_analysis = << >>
        /\ \E i \in 1..Len(calls) : i \in SuccessfulSet(calls)
        /\ \E i \in 1..Len(calls) :
             calls[i].semantic_analysis # << >> /\ i \notin SuccessfulSet(calls)

\* C8: successRate is successfulCount / total x 100 when total > 0 and 0 when
\* total is 0; the 10-call scenario gives total 10, 4 successful, rate 40.
C8_SuccessRate ==
  statsFrom # Null =>
    LET calls == StatsCalls.calls
        n == Cardinality(SuccessfulSet(calls))
    IN \E r \in stats.successRate :
         /\ r.den > 0
         /\ Len(calls) > 0 => r.num * Len(calls) = n * 100 * r.den
         /\ Len(calls) = 0 => r.num = 0
         /\ calls = ScenarioCalls =>
              stats.totalCalls = Some(10) /\ n = 4 /\ r.num = 40 * r.den

\* C8 witness: the stats of the 10-call scenario are stored
C8_Witness == statsFrom # Null /\ StatsCalls.calls = ScenarioCalls

\* the labels of one indicator collection as the specification normalises it:
\* nothing for null, the label of a bare string, every element of an array in
\* its string form, the key names of an object
Normalized(item) ==
  CASE item.tag = "null" -> << >>
    [] item.tag = "string" -> <<item.label>>
    [] item.tag = "array" -> [i \in 1..Len(item.elems) |-> item.elems[i].label]
    [] item.tag = "object" -> item.keys

Occurrences(seq, label) == Cardinality({i \in 1..Len(seq) : seq[i] = label})

RECURSIVE ExpectedCount(_, _)
ExpectedCount(items, label) ==
  IF items = << >> THEN 0
  ELSE Occurrences(Normalized(Head(items)), label) + ExpectedCount(Tail(items), label)

ExpectedLabels(items) ==
  UNION {{Normalized(items[i])[j] : j \in 1..Len(Normalized(items[i]))} : i \in 1..Len(items)}

CountIn(table, label) ==
  IF \E i \in 1..Len(table) : table[i].key = label
    THEN (CHOOSE e \in {table[i] : i \in 1..Len(table)} : e.key = label).count
    ELSE 0

\* C9: countOccurrences counts each label once per occurrence in the normalised
\* values (null: nothing, bare string: that label, array: each element in string
\* form, object: its key names); [["a","b"], {"b":true}, "a", null] gives
\* count(a) = 2 and count(b) = 2.
C9_CountsNormalizedLabels ==
  recordsFrom["Analytics"] # 0 =>
    LET items == PositiveIndicators(records["Analytics"])
    IN /\ \A i \in 1..Len(TopPositive) :
            TopPositive[i].count = ExpectedCount(items, TopPositive[i].key)
       /\ Cardinality(ExpectedLabels(items)) <= TopK =>
            \A label \in ExpectedLabels(items) :
              CountIn(TopPositive, label) = ExpectedCount(items, label)
       /\ items = ExampleItems =>
            CountIn(TopPositive, La) = 2 /\ CountIn(TopPositive, Lb) = 2

\* the labels the code counted, in the order in which they were first
\* encountered, sorted by descending count with ties left in that order
ByCountThenFirstEncounter(items) == SortByCountDesc(<< >>, CountAll(<< >>, items))

\* C10: countOccurrences returns the counted labels sorted by descending count,
\* labels of equal count in first-encountered order (also for labels that look
\* like integers), cut to the first 5 entries.
C10_TiesInFirstEncounterOrder ==
  recordsFrom["Analytics"] # 0 =>
    LET expected == ByCountThenFirstEncounter(PositiveIndicators(records["Analytics"]))
    IN TopPositive = SubSeq(expected, 1, Min(Len(expected), TopK))

\* the scores of the rows that have one
Scores(rows) ==
  {[i |-> i, score |-> CHOOSE n \in rows[i].agent_confidence : TRUE] :
     i \in {j \in 1..Len(rows) : rows[j].agent_confidence # Null}}

RECURSIVE SumOfScores(_)
SumOfScores(S) ==
  IF S = {} THEN 0
  ELSE LET x == CHOOSE y \in S : TRUE IN x.score + SumOfScores(S \ {x})

C12_StatsFromOneReply ==
  /\ statsFrom = Null =>
       stats.totalCalls = Null /\ stats.avgDuration = Null /\ stats.successRate = Null
  /\ \A x \in statsFrom :
       /\ stats.totalCalls = Some(Len(x.calls))
       /\ stats.avgDuration = Some(AvgDuration(x.calls))
       /\ stats.successRate = Some(SuccessRate(x.calls))

\* C12 witness: two call queries of the dashboard have both replied, the stats
\* stored by the first reply were replaced by those of a different result set
C12_Witness ==
  /\ issued["Dashboard"] = 2
  /\ RowQueries("Dashboard") = {}
  /\ error["Dashboard"] = None
  /\ recordsFrom["Dashboard"] = 1
  /\ \E x \in statsFrom : Len(x.calls) = 2

\* text contains kw at some position, letter case ignored (kw in lower case)
ContainsIgnoringCase(text, kw) ==
  \E i \in 1..Len(text) :
    /\ i + Len(kw) - 1 <= Len(text)
    /\ \A k \in 1..Len(kw) : LowerOf(text[i + k - 1]) = kw[k]

\* C13: getCallStatus gives every disconnection reason exactly one of missed and
\* completed: missed iff the text contains 'missed', 'no-answer' or 'failed',
\* letter case ignored, and completed for null and for the empty string.
C13_CallStatusClassifier ==
  \A x \in statsFrom :
    \A i \in 1..Len(records["Dashboard"]) :
      LET reason == x.calls[i].disconnection_reason
          status == records["Dashboard"][i].status
      IN /\ status \in {"missed", "completed"}
         /\ status = "missed" <=>
              \E text \in reason : \E kw \in {Missed, NoAnswer, Failed} :
                ContainsIgnoringCase(text, kw)
         /\ reason \in {Null, Some(<< >>)} => status = "completed"

\* C13 witness: the recent calls hold a call with no reason, one with an empty
\* reason, one classified missed from upper-case text
C13_Witness ==
  \E x \in statsFrom :
    /\ Len(x.calls) = 3 /\ Len(records["Dashboard"]) = 3
    /\ x.calls[1].disconnection_reason = Null
    /\ x.calls[2].disconnection_reason = Some(<< >>)
    /\ x.calls[3].disconnection_reason = Some(<<"M", "I", "S", "S", "E", "D">>)
    /\ records["Dashboard"][3].status = "missed"
    /\ records["Dashboard"][1].status = "completed"

KnownSentiments == {Positive, Negative, Neutral}
KnownAlerts == {Ok, Warning, Error}

\* the classification of a stored label: its lower-cased text when that is one
\* of the known values, unknown otherwise
Classify(label, known) ==
  IF \E t \in label : ToLowerCase(t) \in known
    THEN ToLowerCase(CHOOSE t \in label : TRUE)
    ELSE Unknown

\* the rows of a result set classified as class
ClassifiedAs(rows, class) ==
  {i \in 1..Len(rows) : Classify(rows[i].sentiment, KnownSentiments) = class}

\* C14: a sentiment or alert status label is classified as its lower-cased text
\* when that is one of the three known values and as unknown when it is null or
\* unrecognised, in the status badge of each row and in the sentiment counts of
\* analytics, where every row is counted under a known value or under unknown.
C14_UnrecognisedLabelIsUnknown ==
  /\ \A i \in 1..Len(records["SemanticAnalysisTable"]) :
       LET row == records["SemanticAnalysisTable"][i]
       IN /\ StatusBadge(row.sentiment, "sentiment").status
               = Classify(row.sentiment, KnownSentiments)
          /\ StatusBadge(row.alert_status, "alert").status
               = Classify(row.alert_status, KnownAlerts)
  /\ \A data \in ProcessedData(records["Analytics"]) :
       \A j \in 1..Len(data.sentimentCounts) :
         LET entry == data.sentimentCounts[j]
         IN /\ entry.key \in KnownSentiments \cup {Unknown}
            /\ entry.count = Cardinality(ClassifiedAs(records["Analytics"], entry.key))

\* the number of days from 1 January 2023 to the given date
RECURSIVE DaysBeforeYear(_)
DaysBeforeYear(y) ==
  IF y <= 2023 THEN 0
  ELSE DaysBeforeYear(y - 1) + (IF IsLeapYear(y - 1) THEN 366 ELSE 365)

RECURSIVE DaysBeforeMonth(_, _)
DaysBeforeMonth(y, m) ==
  IF m = 1 THEN 0 ELSE DaysBeforeMonth(y, m - 1) + DaysInMonth(y, m - 1)

DayNumber(date) == DaysBeforeYear(date.y) + DaysBeforeMonth(date.y, date.m) + date.d

CalendarDates ==
  {date \in [y : 2023..2025, m : 1..12, d : 1..31] : date.d <= DaysInMonth(date.y, date.m)}

\* the calendar date n days before the given one
DaysBefore(date, n) ==
  CHOOSE x \in CalendarDates : DayNumber(x) = DayNumber(date) - n

\* the number of days of a range token
DaysOf(range) ==
  CASE range = "today" -> 1 [] range = "7d" -> 7 [] range = "30d" -> 30 [] range = "90d" -> 90

\* the rolling window of a range token at the clock's instant: from local
\* midnight N - 1 days back, to the end of the day for today and to the current
\* instant otherwise
RollingWindow(range) ==
  [startDate |-> [date |-> DaysBefore(clock.date, DaysOf(range) - 1), ms |-> 0],
   endDate |-> IF range = "today"
                 THEN [date |-> clock.date, ms |-> EndOfDayMs]
                 ELSE [date |-> clock.date, ms |-> clock.ms]]

\* C15: at any local time T, getDatesFromRange returns for today the local
\* midnight and 23:59:59.999 of T's date, and for 7d and 30d the local midnight
\* of T's date minus N - 1 days and T itself; the dashboard's call query carries
\* these two instants.
C15_DashboardWindow ==
  \A q \in RowQueries("Dashboard") :
    /\ GetDatesFromRange(q.range, [date |-> clock.date, ms |-> clock.ms])
         = RollingWindow(q.range)
    /\ q.query.preds[1].val = ToISOString(RollingWindow(q.range).startDate, clock.tz)
    /\ q.query.preds[2].val = ToISOString(RollingWindow(q.range).endDate, clock.tz)

\* C15 witness: a 30-day window asked on 5 January, in the afternoon, which
\* starts in the previous year, and a today window asked at the same time
C15_Witness ==
  /\ clock.date = [y |-> 2024, m |-> 1, d |-> 5] /\ clock.ms = 66600000
  /\ \E q \in RowQueries("Dashboard") :
       q.range = "30d" /\ RollingWindow(q.range).startDate.date.y = 2023
  /\ \E q \in RowQueries("Dashboard") : q.range = "today"

\* C16: for 7d, 30d and 90d the lower bound analytics applies to created_at is
\* the local midnight of the current date minus N - 1 days, the start of the
\* dashboard's rolling window.
C16_AnalyticsWindowStart ==
  \A q \in RowQueries("Analytics") :
    q.range # "all" =>
      q.query.preds
        = <<Pred("gte", "created_at", ToISOString(RollingWindow(q.range).startDate, clock.tz))>>

\* C17: the bounds of the dashboard's meetings-count query on tour_date are the
\* local calendar dates of the start and of the end of the window, in every
\* time zone and at every time of day.
C17_TourDateBoundsAreLocalDates ==
  \A q \in pending["Dashboard"] :
    q.kind = "count" =>
      /\ q.query.preds[1].val = RollingWindow(q.range).startDate.date
      /\ q.query.preds[2].val = RollingWindow(q.range).endDate.date

\* the criteria of a view's queries: its filters other than the raw text, its
\* debounced text and its date range
Criteria(v, fs, ds, rs) ==
  [filters |-> IF v \in DebouncedViews
                 THEN [field \in OtherFields(v) |-> fs[v][field]]
                 ELSE << >>,
   text |-> IF v \in DebouncedViews THEN ds[v] ELSE << >>,
   range |-> IF v \in RangeViews THEN rs[v] ELSE None]

\* a query of the view has returned an error since its criteria last changed:
\* the view shows an error message
C18_ErrorSurfaced == \A v \in Views : failed[v] => error[v] # None

\* a step puts a query of a view in flight only if it changes the view's criteria
C18_NoRetryStep ==
  \A v \in Views :
    (issued'[v] # issued[v] \/ ~(pending'[v] \subseteq pending[v])) =>
      Criteria(v, filters', debounced', dateRange') # Criteria(v, filters, debounced, dateRange)

\* C18: every query that returns an error is surfaced and not retried: the
\* view's error becomes a message, and no query is issued until the filter
\* criteria or the date range change; also for the dashboard's meetings count.
C18_ErrorSurfacedNotRetried == [](C18_ErrorSurfaced) /\ [][C18_NoRetryStep]_vars

\* the query carries a predicate with this operator on this column
HasPredicate(query, op, col) ==
  \E i \in 1..Len(query.preds) : query.preds[i].op = op /\ query.preds[i].col = col

\* the conditions of the disjunction of a Meetings query, as the store reads them
OrConditions(query) ==
  LET i == CHOOSE j \in 1..Len(query.preds) : query.preds[j].op = "or"
  IN ReadOrFilter(query.preds[i].val, << >>)

\* C19: for every non-empty debounced search text s, the Meetings query selects
\* the records with a non-null tour_date, and (name contains s or recipient
\* number contains s), and tour_date within the inclusive bounds given; the
\* disjunction has these two conditions whatever s contains.
C19_MeetingsPredicate ==
  \A q \in RowQueries("Meetings") :
    q.text # << >> =>
      /\ q.query.preds[1] = Pred("not.is", "tour_date", None)
      /\ HasPredicate(q.query, "or", "")
      /\ OrConditions(q.query)
           = << <<"name.ilike.%">> \o q.text \o <<"%">>,
                <<"recipient_number.ilike.%">> \o q.text \o <<"%">> >>
      /\ q.filters.startDate # "" =>
           \E i \in 1..Len(q.query.preds) :
             q.query.preds[i] = Pred("gte", "tour_date", q.filters.startDate)
      /\ q.filters.endDate # "" =>
           \E i \in 1..Len(q.query.preds) :
             q.query.preds[i] = Pred("lte", "tour_date", q.filters.endDate)
      /\ Len(q.query.preds) = 2 + (IF q.filters.startDate # "" THEN 1 ELSE 0)
                                + (IF q.filters.endDate # "" THEN 1 ELSE 0)

\* C20: the query of every view carries the optional predicate of a filter field
\* iff the field's effective value (the debounced one for the text field) is not
\* empty; with every field empty, and the range all in analytics, it carries only
\* the view's structural predicates.
C20_OptionalPredicates ==
  /\ \A q \in RowQueries("Meetings") :
       /\ HasPredicate(q.query, "or", "") <=> q.text # << >>
       /\ HasPredicate(q.query, "gte", "tour_date") <=> q.filters.startDate # ""
       /\ HasPredicate(q.query, "lte", "tour_date") <=> q.filters.endDate # ""
       /\ (q.text = << >> /\ q.filters.startDate = "" /\ q.filters.endDate = "") =>
            q.query.preds = <<Pred("not.is", "tour_date", None)>>
  /\ \A q \in RowQueries("Conversations") :
       /\ HasPredicate(q.query, "ilike", "recipient_number") <=> q.text # << >>
       /\ HasPredicate(q.query, "gte", "created_at") <=> q.filters.date # ""
       /\ HasPredicate(q.query, "lt", "created_at") <=> q.filters.date # ""
       /\ (q.text = << >> /\ q.filters.date = "") => q.query.preds = << >>
  /\ \A q \in RowQueries("SemanticAnalysisTable") :
       /\ HasPredicate(q.query, "eq", "call_id") <=> q.text # << >>
       /\ HasPredicate(q.query, "eq", "sentiment") <=> q.filters.sentiment # ""
       /\ HasPredicate(q.query, "eq", "alert_status") <=> q.filters.alertStatus # ""
       /\ HasPredicate(q.query, "gte", "created_at") <=> q.filters.startDate # ""
       /\ HasPredicate(q.query, "lte", "created_at") <=> q.filters.endDate # ""
       /\ (/\ q.text = << >> /\ q.filters.sentiment = "" /\ q.filters.alertStatus = ""
           /\ q.filters.startDate = "" /\ q.filters.endDate = "") => q.query.preds = << >>
  /\ \A q \in RowQueries("Analytics") :
       /\ HasPredicate(q.query, "gte", "created_at") <=> q.range # "all"
       /\ q.range = "all" => q.query.preds = << >>
  /\ \A q \in RowQueries("Dashboard") : Len(q.query.preds) = 2

\* C20 witness: a query of the analysis table in flight with a call id and a
\* sentiment and no other filter, and so with exactly these two predicates
C20_Witness ==
  \E q \in RowQueries("SemanticAnalysisTable") :
    /\ q.text # << >> /\ q.filters.sentiment # ""
    /\ q.filters.alertStatus = "" /\ q.filters.startDate = "" /\ q.filters.endDate = ""
    /\ Len(q.query.preds) = 2


(***************************************************************************)
(* C21: the expansion tracker of the analysis table starts at none, a      *)
(* selection of row r collapses r when r is the expanded row and expands r *)
(* otherwise, and so at most one row is expanded at any time.              *)
(***************************************************************************)
\* a step of the mounted analysis table that is a row selection, not an edit
C21_ToggleStep ==
  /\ active = "SemanticAnalysisTable" /\ active' = active
  /\ nEvents' = nEvents + 1
  /\ filters' = filters

C21_ExpansionTracker ==
  /\ expandedRowId = Null
  /\ [](Cardinality(expandedRowId) <= 1)
  /\ [][C21_ToggleStep =>
          /\ toggled' # Null
          /\ expandedRowId' = IF expandedRowId = toggled' THEN Null ELSE toggled']_vars

\* row 1 was selected while it was the expanded row, and is collapsed
C21_Witness ==
  /\ active = "SemanticAnalysisTable"
  /\ nEvents = 2
  /\ toggled = Some(1)
  /\ expandedRowId = Null


(***************************************************************************)
(* C22: a view torn down while its debounce timer is pending cancels the   *)
(* timer: a view that is not mounted has no timer, its debounced value is  *)
(* not set and no query is issued for it.                                  *)
(***************************************************************************)
C22_TeardownCancelsTimer ==
  /\ [](\A v \in DebouncedViews : v # active => timers[v] = {})
  /\ [][\A v \in DebouncedViews :
          /\ (v = active /\ v # active') => timers'[v] = {}
          /\ (v # active /\ v # active') =>
               /\ debounced'[v] = debounced[v]
               /\ issued'[v] = issued[v]
               /\ pending'[v] = pending[v]]_vars

\* a view left with a typed value still waiting in its timer
C22_Witness ==
  /\ \E t \in tornDown : t.value # << >> /\ t.elapsed < DebounceMs
  /\ \A v \in DebouncedViews \ {active} : timers[v] = {} /\ debounced[v] = << >>


(***************************************************************************)
(* C23: the debounce timer of a view belongs to its text field alone: an   *)
(* edit that leaves the text field as it is neither cancels nor restarts   *)
(* the pending timer, and an edit in one view leaves the timers of every   *)
(* other view as they are.                                                 *)
(***************************************************************************)
C23_TimerIndependence ==
  [][\A v \in DebouncedViews :
       (active' = active /\ filters'[v] # filters[v]) =>
         /\ filters'[v][TextField(v)] = filters[v][TextField(v)] => timers'[v] = timers[v]
         /\ \A w \in DebouncedViews \ {v} : timers'[w] = timers[w]]_vars

\* a query issued by an edit of another field while the typed text still
\* waits in a timer that has been running for one tick
C23_Witness ==
  /\ active \in DebouncedViews
  /\ \E t \in timers[active], q \in pending[active] :
       /\ t.value # << >> /\ t.cur /\ t.elapsed = TickMs
       /\ q.filters[TextField(active)] = t.value
       /\ q.text = << >>
       /\ \E field \in OtherFields(active) : q.filters[field] # ""


\* the durations of the calls that have one, by position
KnownDurations(calls) ==
  {[i |-> i, seconds |-> CHOOSE n \in calls[i].call_duration : TRUE] :
     i \in {j \in 1..Len(calls) : calls[j].call_duration # Null}}

RECURSIVE SumOfSeconds(_)
SumOfSeconds(S) ==
  IF S = {} THEN 0
  ELSE LET x == CHOOSE y \in S : TRUE IN x.seconds + SumOfSeconds(S \ {x})

\* C24: the dashboard's average duration is the sum of the durations, a null
\* duration counted as 0, divided by the number of calls, and 0 for an empty
\* result: the divisor is never zero and the stored value never null.
C24_AverageDuration ==
  \A x \in statsFrom :
    /\ stats.avgDuration # Null
    /\ \A r \in stats.avgDuration :
         /\ r.den > 0
         /\ Len(x.calls) = 0 => r.num = 0
         /\ Len(x.calls) > 0 =>
              r.num * Len(x.calls) = SumOfSeconds(KnownDurations(x.calls)) * r.den

\* the stats of a reply that holds a call without duration beside a call of 60 s
C24_Witness ==
  \E x \in statsFrom :
    /\ \E i \in 1..Len(x.calls) : x.calls[i].call_duration = Null
    /\ \E i \in 1..Len(x.calls) : x.calls[i].call_duration = Some(60)
    /\ stats.avgDuration = Some(Rat(60, Len(x.calls)))


\* C25: whatever the filters, a Meetings query orders its rows ascending by
\* tour_date, and a row query of Conversations, of the analysis table and of the
\* dashboard orders its rows descending by created_at.
C25_QueryOrdering ==
  /\ \A q \in RowQueries("Meetings") : q.query.order = <<"tour_date", "asc">>
  /\ \A v \in {"Conversations", "SemanticAnalysisTable", "Dashboard"} :
       \A q \in RowQueries(v) : q.query.order = <<"created_at", "desc">>

\* a Meetings query with a search text and a date bound is in flight
C25_Witness ==
  \E q \in RowQueries("Meetings") :
    /\ q.text # << >>
    /\ q.filters.startDate # "" \/ q.filters.endDate # ""
    /\ Len(q.query.preds) = 3


(***************************************************************************)
(* C26: a failed row query leaves the stored data of its view as it was    *)
(* (records; in the dashboard the stats and the recent calls) and changes  *)
(* only the error and the loading flags, in every view alike; while the    *)
(* error is set the view renders the message and none of the stored rows.  *)
(***************************************************************************)
\* the reply to row query q of view v was an error: q left the queries in
\* flight of the mounted view and the records were not written from it
C26_FailedReply(v, q) ==
  /\ active' = active
  /\ q \in pending[v] \ pending'[v]
  /\ q.kind = "rows"
  /\ recordsFrom'[v] # q.id

C27_LoadingTracksPendingQueries ==
  \A v \in Views :
    v = active => (~loading[v] <=> RowQueries(v) = {})

\* the half of C27 that holds: once every query of the mounted view has
\* completed, loading is false
C27_LoadingFalseWhenAllCompleted ==
  \A v \in Views : (v = active /\ RowQueries(v) = {}) => ~loading[v]

\* C28: in the dashboard, whenever statsLoading is false the three stats are
\* non-null, also after a first query that failed.
C28_StatsPresentWhenNotLoading ==
  (active = "Dashboard" /\ ~statsLoading) =>
    /\ stats.totalCalls # Null
    /\ stats.avgDuration # Null
    /\ stats.successRate # Null

\* C29: in Analytics, whenever no query is in flight the date-range selector is
\* rendered, also after a reply of zero rows and after an error.
C29_RangeSelectorOffered ==
  (active = "Analytics" /\ pending["Analytics"] = {}) => RangeButtonsRendered("Analytics")


\* the sum of the counts of the entries at positions P
RECURSIVE SumOfCounts(_, _)
SumOfCounts(counter, P) ==
  IF P = {} THEN 0
  ELSE LET i == CHOOSE j \in P : TRUE
       IN counter[i].count + SumOfCounts(counter, P \ {i})

\* C30: in Analytics, for every non-empty result set totalSentiments is not zero
\* and is the sum of all entries of sentimentCounts, the unknown bucket
\* included, so every share is finite and the shares add up to 100 per cent.
C30_SharesOfAllCountedRows ==
  \A data \in ProcessedData(records["Analytics"]) :
    /\ data.totalSentiments # 0
    /\ data.totalSentiments =
         SumOfCounts(data.sentimentCounts, 1..Len(data.sentimentCounts))
    /\ \A i \in 1..Len(data.sentimentCounts) :
         /\ ~SentimentShares(data)[i].nan
         /\ SentimentShares(data)[i].val.den # 0

==========================================================================
